---- MODULE Spec2Model ----
(***************************************************************************)
(* State-machine model of the qwikjs-invoice editor: the invoice store and *)
(* its input handlers (routes/index, LineItems, InvoiceHeader), the        *)
(* derived totals, the send simulation, the logo upload, and the two PDF   *)
(* routes (handleDownload$ and generateInvoicePDF).                        *)
(*                                                                         *)
(* Modelling conventions                                                   *)
(*  - JavaScript runs one task at a time.  cur names the download task     *)
(*    that holds the thread (0: the event loop is idle); a handler starts  *)
(*    only when cur = 0, and a task gives the thread up only at an await   *)
(*    or when it returns.                                                  *)
(*  - The view is a function of the state: a re-render follows every       *)
(*    mutation before the next user event, so the values a handler closes  *)
(*    over are those of the state at the click, and a control is offered   *)
(*    exactly when the JSX renders it enabled.                             *)
(*  - Numbers are whole numbers (quantity, price, tax rate) and amounts    *)
(*    are held in hundredths, so x * (taxRate / 100) is exact; binary      *)
(*    floating-point rounding is not modelled.  NaN is a distinguished     *)
(*    value that arithmetic propagates.                                    *)
(***************************************************************************)
EXTENDS Integers, Sequences, FiniteSets, TLC

\* ------------------------------------------------------------------ bounds
MaxItems == 3
MaxEvents == 3
MaxInputs == 1
MaxTicks == 1
T0 == 5

\* ------------------------------------------------------- program constants
InitQty1 == 10
InitPrice1 == 85
InitQty2 == 2
InitPrice2 == 150
InitTaxRate == 8

VARIABLES
    invoice,     \* the useStore<Invoice>
    isEditing,   \* useSignal(true)
    isSending,   \* useSignal(false)
    logoUrl,     \* useSignal<string | null>(null)
    now,         \* the wall clock at the last Date.now()
    events,      \* number of user events so far (bounded by MaxEvents)
    inputs,      \* number of inputs into number fields so far (bounded by MaxInputs)
    readers,     \* the files of the FileReaders whose read is pending, oldest first
    lastFile,    \* the file selected last (e.target.files[0] of the input)
    deleted,     \* history: the logo was deleted and no file was selected since
    send,        \* invocations of handleSend$: [pc, alerts, message, clicked]
    win,         \* window.jspdf / window.jspdf.autoTable defined
    injected,    \* <script> elements appended to document.body, per library
    dl,          \* invocations of handleDownload$
    cur          \* the download task holding the thread, 0 when none does

vars == <<invoice, isEditing, isSending, logoUrl, now, events, inputs, readers,
          lastFile, deleted, send, win, injected, dl, cur>>

sendVars == <<isSending, send>>

logoVars == <<logoUrl, readers, lastFile, deleted>>

downloadVars == <<win, injected, dl, cur>>

\* ------------------------------------------------------------ JS numbers
NaN == 0 - 999999

IsNaN(x) == x = NaN

JsMul(a, b) == IF IsNaN(a) \/ IsNaN(b) THEN NaN ELSE a * b

JsAdd(a, b) == IF IsNaN(a) \/ IsNaN(b) THEN NaN ELSE a + b

Abs(x) == IF x < 0 THEN 0 - x ELSE x

\* x.toFixed(2) of an amount held in hundredths: sign, whole part and the two
\* decimals, as the printed string shows them ("-0.00" does not occur: toFixed
\* prints the sign of a negative number only).
ToFixed2(h) ==
    IF IsNaN(h) THEN <<"NaN">>
    ELSE <<IF h < 0 THEN "-" ELSE "", Abs(h) \div 100, ".",
           (Abs(h) % 100) \div 10, Abs(h) % 10>>

\* A whole number as an amount in hundredths.
Amount(n) == JsMul(n, 100)

\* ------------------------------------------------------- text of the inputs
Digits == {"0", "1", "2", "3", "4", "5", "6", "7", "8", "9"}

DigitVal(c) ==
    CASE c = "0" -> 0 [] c = "1" -> 1 [] c = "2" -> 2 [] c = "3" -> 3
      [] c = "4" -> 4 [] c = "5" -> 5 [] c = "6" -> 6 [] c = "7" -> 7
      [] c = "8" -> 8 [] c = "9" -> 9

\* Length of the longest prefix of s made of digits.
RECURSIVE DigitPrefix(_)
DigitPrefix(s) ==
    IF s = <<>> \/ Head(s) \notin Digits THEN 0 ELSE 1 + DigitPrefix(Tail(s))

RECURSIVE DigitsValue(_, _)
DigitsValue(s, acc) ==
    IF s = <<>> THEN acc ELSE DigitsValue(Tail(s), acc * 10 + DigitVal(Head(s)))

\* parseFloat(s) on texts without fraction or exponent: an optional sign, then
\* the longest run of digits; NaN when there is no digit.
ParseFloat(s) ==
    LET neg == s # <<>> /\ Head(s) = "-"
        body == IF neg THEN Tail(s) ELSE s
        n == DigitPrefix(body)
        v == DigitsValue(SubSeq(body, 1, n), 0)
    IN IF n = 0 THEN NaN ELSE IF neg THEN 0 - v ELSE v

\* Number(s): the whole text must be a numeral; the empty text is 0.
JsNumber(s) ==
    LET neg == s # <<>> /\ Head(s) = "-"
        body == IF neg THEN Tail(s) ELSE s
        v == DigitsValue(body, 0)
    IN IF s = <<>> THEN 0
       ELSE IF body = <<>> \/ DigitPrefix(body) # Len(body) THEN NaN
       ELSE IF neg THEN 0 - v ELSE v

\* A handler without the `|| 0`.
OrZero_Mut(x) == x

\* x || 0 on a number: NaN and 0 are falsy.
OrZero(x) == IF IsNaN(x) \/ x = 0 THEN 0 ELSE x

\* What the user may type into a number field.
TypedTexts == {<<>>, <<"2">>, <<"-", "1">>, <<"a">>}

\* e.target.value of an <input type="number">: the browser keeps the typed text
\* when it is a valid number and the empty string otherwise.
NumberInputValue(t) == IF IsNaN(JsNumber(t)) THEN <<>> ELSE t

\* ------------------------------------------------------------- the totals
\* routes/index: invoice.items.reduce((sum, item) => sum + (item.quantity * item.price), 0)
RECURSIVE PageReduce(_, _)
PageReduce(items, sum) ==
    IF items = <<>> THEN sum
    ELSE PageReduce(Tail(items),
                    JsAdd(sum, JsMul(Head(items).quantity, Head(items).price)))

\* routes/index: subtotal, taxAmount and total of a render, in hundredths.
PageTotals(inv) ==
    LET subtotal == PageReduce(inv.items, 0)
        taxAmount == JsMul(subtotal, inv.taxRate)
        total == JsAdd(Amount(subtotal), taxAmount)
    IN [subtotal |-> Amount(subtotal), taxAmount |-> taxAmount, total |-> total]

\* generateInvoicePDF: invoice.items.reduce((acc, item) => acc + (item.quantity * item.price), 0)
RECURSIVE PdfReduce(_, _)
PdfReduce(items, acc) ==
    IF items = <<>> THEN acc
    ELSE PdfReduce(Tail(items),
                   JsAdd(acc, JsMul(Head(items).quantity, Head(items).price)))

\* A generateInvoicePDF whose total subtracts the tax.
PdfTotals_Mut(inv) ==
    LET subtotal == PdfReduce(inv.items, 0)
        taxAmount == JsMul(subtotal, inv.taxRate)
        total == JsAdd(Amount(subtotal), 0 - taxAmount)
    IN [subtotal |-> Amount(subtotal), taxAmount |-> taxAmount, total |-> total]

\* generateInvoicePDF: the totals it computes for the table footer, in hundredths.
PdfTotals(inv) ==
    LET subtotal == PdfReduce(inv.items, 0)
        taxAmount == JsMul(subtotal, inv.taxRate)
        total == JsAdd(Amount(subtotal), taxAmount)
    IN [subtotal |-> Amount(subtotal), taxAmount |-> taxAmount, total |-> total]

\* ------------------------------------------------------------ the invoice
InitialItems ==
    << [id |-> 1, description |-> "Web Development Services",
        quantity |-> InitQty1, price |-> InitPrice1],
       [id |-> 2, description |-> "Server Setup",
        quantity |-> InitQty2, price |-> InitPrice2] >>

\* A line break inside a text.
LF == "\n"

\* invoice.notes at the start: three lines.
InitialNotes ==
    <<"Payment is due within 14 days.", LF,
      "This document remains valid even without a signature.", LF,
      "Thank you for your business!">>

\* invoice.id at the start: `INV-${year}${random}`, one of its values.
InitialId == "INV-20264711"

\* createdAt and dueDate at the start: today and 14 days later, as yyyy-mm-dd.
InitialCreatedAt == "2026-01-01"

InitialDueDate == "2026-01-15"

\* An address text is given by its words and line breaks.
\* '123 Tech Blvd, San Francisco, CA 94107'
InitialFromAddress == <<"123", "Tech", "Blvd,", "San", "Francisco,", "CA", "94107">>

\* '456 Market St, New York, NY 10001'
InitialToAddress == <<"456", "Market", "St,", "New", "York,", "NY", "10001">>

InitialFrom ==
    [name |-> "My Company LLC", email |-> "hello@mycompany.com",
     address |-> InitialFromAddress]

InitialTo ==
    [name |-> "Client Name", email |-> "client@business.com",
     address |-> InitialToAddress]

InitialInvoice ==
    [id |-> InitialId, createdAt |-> InitialCreatedAt, dueDate |-> InitialDueDate,
     from |-> InitialFrom, to |-> InitialTo,
     items |-> InitialItems, notes |-> InitialNotes, taxRate |-> InitTaxRate]

\* An addItem$ whose new item has quantity 0.
NewItem_Mut(t) == [id |-> t, description |-> "", quantity |-> 0, price |-> 0]

\* The new item of addItem$: id: Date.now(), description: '', quantity: 1, price: 0
NewItem(t) == [id |-> t, description |-> "", quantity |-> 1, price |-> 0]

\* What Date.now() may return: the clock does not run backwards, and may not
\* have advanced since it was last read.
ClockReadings == {t \in T0..(T0 + MaxTicks) : t >= now}

\* items.shift(): the first item goes, whatever the index.
Splice_MutShift(items, index) == Tail(items)

\* items.splice(index, 2): two items go.
Splice_MutTwo(items, index) ==
    SubSeq(items, 1, index - 1) \o SubSeq(items, index + 2, Len(items))

\* items.splice(index, 1), index counted from 1 here; also the removal of one
\* pending reader.
Splice(items, index) ==
    SubSeq(items, 1, index - 1) \o SubSeq(items, index + 1, Len(items))

\* The event loop is idle: no download task holds the thread.
Idle == cur = 0

\* ------------------------------------------------ handlers of the edit form
\* A user event (a click, an input, a file selection) is dispatched when the
\* event loop is idle; the model follows at most MaxEvents of them.
UserEvent ==
    /\ Idle
    /\ events < MaxEvents
    /\ events' = events + 1

\* An input event of a number field; the model follows at most MaxInputs of them.
NumberInput ==
    /\ UserEvent
    /\ inputs < MaxInputs
    /\ inputs' = inputs + 1

\* An input event of a text area; it counts among the MaxInputs input events.
TextInput ==
    /\ UserEvent
    /\ inputs < MaxInputs
    /\ inputs' = inputs + 1

\* onClick$={() => isEditing.value = !isEditing.value}
ToggleEditing ==
    /\ UserEvent
    /\ isEditing' = ~isEditing
    /\ UNCHANGED <<inputs, invoice, now, sendVars, logoVars, downloadVars>>

\* addItem$: items.push({...}); the button is rendered in edit mode only.
addItem ==
    /\ UserEvent
    /\ isEditing
    /\ Len(invoice.items) < MaxItems
    /\ \E t \in ClockReadings :
          /\ now' = t
          /\ invoice' = [invoice EXCEPT !.items = Append(@, NewItem(t))]
    /\ UNCHANGED <<inputs, isEditing, sendVars, logoVars, downloadVars>>

\* removeItem$(index): items.splice(index, 1); one delete button per row, in
\* edit mode only.
removeItem(index) ==
    /\ UserEvent
    /\ isEditing
    /\ index \in 1..Len(invoice.items)
    /\ invoice' = [invoice EXCEPT !.items = Splice(@, index)]
    /\ UNCHANGED <<inputs, isEditing, now, sendVars, logoVars, downloadVars>>

\* onInput$ of a row's quantity: item.quantity = parseFloat(e.target.value) || 0
InputQuantity(index, typed) ==
    /\ NumberInput
    /\ isEditing
    /\ index \in 1..Len(invoice.items)
    /\ invoice' = [invoice EXCEPT !.items[index].quantity =
                       OrZero(ParseFloat(NumberInputValue(typed)))]
    /\ UNCHANGED <<isEditing, now, sendVars, logoVars, downloadVars>>

\* onInput$ of a row's price: item.price = parseFloat(e.target.value) || 0
InputPrice(index, typed) ==
    /\ NumberInput
    /\ isEditing
    /\ index \in 1..Len(invoice.items)
    /\ invoice' = [invoice EXCEPT !.items[index].price =
                       OrZero(ParseFloat(NumberInputValue(typed)))]
    /\ UNCHANGED <<isEditing, now, sendVars, logoVars, downloadVars>>

\* What the user may type into the invoice number.
IdTexts == {"INV-7"}

\* onInput$ of the invoice number: invoice.id = e.target.value.  The input is
\* rendered when the isEditing prop, a boolean, is true.
InputId(typed) ==
    /\ TextInput
    /\ isEditing
    /\ invoice' = [invoice EXCEPT !.id = typed]
    /\ UNCHANGED <<isEditing, now, sendVars, logoVars, downloadVars>>

\* What the date picker may give.
DateTexts == {"2026-02-02"}

\* onInput$ of the date inputs: invoice.createdAt = e.target.value, and the
\* same for dueDate; both inputs have disabled={!isEditing}.
InputCreatedAt(typed) ==
    /\ TextInput
    /\ isEditing
    /\ invoice' = [invoice EXCEPT !.createdAt = typed]
    /\ UNCHANGED <<isEditing, now, sendVars, logoVars, downloadVars>>

InputDueDate(typed) ==
    /\ TextInput
    /\ isEditing
    /\ invoice' = [invoice EXCEPT !.dueDate = typed]
    /\ UNCHANGED <<isEditing, now, sendVars, logoVars, downloadVars>>

\* The two address sections: Bill From and Bill To.
Parties == {"from", "to"}

\* What the user may type into a name and into an email.
NameTexts == {"ACME"}

EmailTexts == {"new@client.com"}

\* What the user may type into an address: seven short lines, or one line of
\* nine words.
AddressTexts ==
    { <<"Suite", LF, "1", LF, "2", LF, "Main", LF, "Town", LF, "ZZ", LF, "Land">>,
      <<"1", "2", "3", "4", "5", "6", "7", "8", "9">> }

\* onInput$ of an address section (data is invoice.from or invoice.to):
\* data.name = e.target.value.  The inputs are rendered when the isEditing
\* prop is true.
InputName(party, typed) ==
    /\ TextInput
    /\ isEditing
    /\ invoice' = [invoice EXCEPT ![party].name = typed]
    /\ UNCHANGED <<isEditing, now, sendVars, logoVars, downloadVars>>

\* data.address = e.target.value
InputAddress(party, typed) ==
    /\ TextInput
    /\ isEditing
    /\ invoice' = [invoice EXCEPT ![party].address = typed]
    /\ UNCHANGED <<isEditing, now, sendVars, logoVars, downloadVars>>

\* data.email = e.target.value
InputEmail(party, typed) ==
    /\ TextInput
    /\ isEditing
    /\ invoice' = [invoice EXCEPT ![party].email = typed]
    /\ UNCHANGED <<isEditing, now, sendVars, logoVars, downloadVars>>

\* What the user may type into a row's description.
DescriptionTexts == {"Design"}

\* onInput$ of a row's description: item.description = e.target.value
InputDescription(index, typed) ==
    /\ TextInput
    /\ isEditing
    /\ index \in 1..Len(invoice.items)
    /\ invoice' = [invoice EXCEPT !.items[index].description = typed]
    /\ UNCHANGED <<isEditing, now, sendVars, logoVars, downloadVars>>

\* What the user may type into the notes: nothing, or lines with an empty line
\* among them and a line break at the end.
NotesTexts == {<<>>, <<"Net 30", LF, LF, "Thanks", LF>>}

\* onInput$ of the notes: invoice.notes = e.target.value.  Like the tax field,
\* the text area is guarded by the signal object and rendered in both modes.
InputNotes(typed) ==
    /\ TextInput
    /\ invoice' = [invoice EXCEPT !.notes = typed]
    /\ UNCHANGED <<isEditing, now, sendVars, logoVars, downloadVars>>

\* A tax handler that replaces the invoice by a fresh one with the new rate.
InputTaxRate_Mut(typed) ==
    /\ NumberInput
    /\ LET value == NumberInputValue(typed)
       IN invoice' = [InitialInvoice EXCEPT !.taxRate =
                          IF value = <<>> THEN 0 ELSE JsNumber(value)]
    /\ UNCHANGED <<isEditing, now, sendVars, logoVars, downloadVars>>

\* onInput$ of the tax field: invoice.taxRate = Number(e.target.value || 0).
\* The field is guarded by `isEditing ? ...`, the signal object itself, which is
\* always truthy: the field is rendered in both modes.
InputTaxRate(typed) ==
    /\ NumberInput
    /\ LET value == NumberInputValue(typed)
       IN invoice' = [invoice EXCEPT !.taxRate =
                          IF value = <<>> THEN 0 ELSE JsNumber(value)]
    /\ UNCHANGED <<isEditing, now, sendVars, logoVars, downloadVars>>

\* ------------------------------------------------------------ handleSend$
SendIds == 1..MaxEvents

\* An invocation of handleSend$: its position, the alerts it has shown, the
\* text of its alert, and (history) the recipient at the time of the click.
IdleSend == [pc |-> "idle", alerts |-> 0, message |-> <<>>, clicked |-> ""]

\* The next invocation of handleSend$ is the first unused one.
FreshSend(s) == send[s].pc = "idle" /\ \A t \in 1..(s - 1) : send[t].pc # "idle"

\* A Send button without the disabled attribute.
SendButtonEnabled_Mut == TRUE

\* <button onClick$={handleSend$} disabled={isSending.value}>
SendButtonEnabled == ~isSending

\* handleSend$ up to its await: isSending.value = true; setTimeout(resolve, 1500)
handleSend(s) ==
    /\ UserEvent
    /\ SendButtonEnabled
    /\ FreshSend(s)
    /\ isSending' = TRUE
    /\ send' = [send EXCEPT ![s].pc = "delay", ![s].clicked = invoice.to.email]
    /\ UNCHANGED <<inputs, invoice, isEditing, now, logoVars, downloadVars>>

\* A handleSend$ that ends without the alert.
SendOutcome_Mut(r) == [r EXCEPT !.pc = "done"]

\* A handleSend$ whose alert names the recipient of the time of the click.
SendOutcome_MutClicked(r) ==
    [r EXCEPT !.pc = "done", !.alerts = @ + 1,
              !.message = <<"Invoice sent successfully to ", r.clicked, "!">>]

\* What the rest of handleSend$ does to its invocation: the success alert,
\* alert(`Invoice sent successfully to ${invoice.to.email}!`)
SendOutcome(r) ==
    [r EXCEPT !.pc = "done", !.alerts = @ + 1,
              !.message = <<"Invoice sent successfully to ", invoice.to.email, "!">>]

\* The timer fires: alert(`Invoice sent successfully ...`); isSending.value = false
SendTimer(s) ==
    /\ Idle
    /\ send[s].pc = "delay"
    /\ send' = [send EXCEPT ![s] = SendOutcome(@)]
    /\ isSending' = FALSE
    /\ UNCHANGED <<inputs, invoice, isEditing, now, events, logoVars, downloadVars>>

\* ------------------------------------------------------------------ the logo
Files == {"a.png", "b.png"}

NoFile == "none"

Null == <<>>

\* reader.readAsDataURL(file): the data URL that encodes the file.
DataURL(file) == <<"data:image/png;base64", file>>

\* handleLogoUpload$: the file input is rendered when there is no logo and the
\* page is in edit mode.  Without a file the handler returns at once.
handleLogoUpload(file) ==
    /\ UserEvent
    /\ isEditing
    /\ logoUrl = Null
    /\ IF file = NoFile
         THEN UNCHANGED <<readers, lastFile, deleted>>
         ELSE /\ readers' = Append(readers, file)
              /\ lastFile' = file
              /\ deleted' = FALSE
    /\ UNCHANGED <<inputs, invoice, isEditing, now, logoUrl, sendVars, downloadVars>>

\* reader.onload = () => { logoUrl.value = reader.result as string; }
ReaderOnload(k) ==
    /\ Idle
    /\ k \in 1..Len(readers)
    /\ logoUrl' = DataURL(readers[k])
    /\ readers' = Splice(readers, k)
    /\ UNCHANGED <<inputs, invoice, isEditing, now, events, lastFile, deleted, sendVars, downloadVars>>

\* handleLogoDelete$: the delete button overlays a logo, in edit mode.
handleLogoDelete ==
    /\ UserEvent
    /\ isEditing
    /\ logoUrl # Null
    /\ logoUrl' = Null
    /\ deleted' = TRUE
    /\ UNCHANGED <<inputs, invoice, isEditing, now, readers, lastFile, sendVars, downloadVars>>

\* --------------------------------------------------------- handleDownload$
DownloadIds == 1..MaxEvents

NoTotals == [subtotal |-> 0, taxAmount |-> 0, total |-> 0]

\* An invocation of handleDownload$: its position, the subtotal, taxAmount and
\* total its closure holds, the calls made on doc so far, the error caught at
\* the top level, and what it showed, logged and saved.
IdleDownload ==
    [pc |-> "idle", captured |-> NoTotals, ops |-> <<>>, err |-> "none",
     alerts |-> 0, errors |-> 0, warns |-> 0, saved |-> 0]

\* A click starts a new invocation, in the first free place.
FreshDownload(d) == dl[d].pc = "idle" /\ \A e \in 1..(d - 1) : dl[e].pc # "idle"

\* A handleDownload$ with a third await, in front of the table.
Yields_Mut(pc) == pc \in {"awaitJsPDF", "awaitAutoTable", "table"}

\* The positions at which handleDownload$ awaits (the two script promises).
Yields(pc) == pc \in {"awaitJsPDF", "awaitAutoTable"}

\* Invocation d can take its next step: it holds the thread, or it is resumed
\* from an await while the event loop is idle.
Runs(d) == cur = d \/ (Idle /\ Yields(dl[d].pc))

\* The positions of the synchronous layout, from `const { jsPDF } = win.jspdf`
\* to doc.save.
LayoutPcs == {"create", "title", "logo", "meta", "from", "to", "table", "notes", "save"}

\* Invocation d moves on as r: it keeps the thread unless it awaits or is over.
Goto(d, r) ==
    /\ dl' = [dl EXCEPT ![d] = r]
    /\ cur' = IF Yields(r.pc) \/ r.pc = "idle" THEN 0 ELSE d

\* n.toString() of a whole number.
NumToString(n) ==
    IF IsNaN(n) THEN <<"NaN">> ELSE <<IF n < 0 THEN "-" ELSE "", Abs(n)>>

\* invoice.items.map((item) => [description, quantity.toString(),
\*   `$${price.toFixed(2)}`, `$${(quantity * price).toFixed(2)}`])
TableBody(items) ==
    [i \in 1..Len(items) |->
        <<items[i].description,
          NumToString(items[i].quantity),
          <<"$", ToFixed2(Amount(items[i].price))>>,
          <<"$", ToFixed2(Amount(JsMul(items[i].quantity, items[i].price)))>> >>]

\* foot: Subtotal, Tax (rate%), Total, each with `$${x.toFixed(2)}`
TableFoot(t, taxRate) ==
    << <<"", "", "Subtotal", <<"$", ToFixed2(t.subtotal)>> >>,
       <<"", "", <<"Tax (", NumToString(taxRate), "%)">>, <<"$", ToFixed2(t.taxAmount)>> >>,
       <<"", "", "Total", <<"$", ToFixed2(t.total)>> >> >>

\* head: [['Description', 'Qty', 'Price', 'Total']]
TableHead == << <<"Description", "Qty", "Price", "Total">> >>

\* startY: 95
StartY == 95

\* The options of an autoTable call.
TableOptions(body, foot) ==
    [startY |-> StartY, head |-> TableHead, body |-> body, foot |-> foot]

\* The height the table engine gives a row, in points.
RowHeight == 8

\* The height of an A4 page, in mm.
PageHeight == 297

\* The margin the table engine keeps at the top and at the bottom of a page.
PageMargin == 14

\* The y below the last of n rows placed from y on: a row that does not fit
\* above the bottom margin is drawn on a new page, from the top margin.
RECURSIVE PlaceRows(_, _)
PlaceRows(y, n) ==
    IF n = 0 THEN y
    ELSE IF y + RowHeight > PageHeight - PageMargin
           THEN PlaceRows(PageMargin + RowHeight, n - 1)
           ELSE PlaceRows(y + RowHeight, n - 1)

\* lastAutoTable.finalY, the y at which the table engine ended the table it
\* drew last: below startY by the rows of head, body and foot, on the page
\* the table ends on.
FinalY(options) ==
    PlaceRows(options.startY,
              Len(options.head) + Len(options.body) + Len(options.foot))

\* doc.lastAutoTable.finalY after the calls ops (0 when no table was drawn).
RECURSIVE LastAutoTableFinalY(_)
LastAutoTableFinalY(ops) ==
    IF ops = <<>> THEN 0
    ELSE IF ops[Len(ops)][1] = "autoTable" THEN FinalY(ops[Len(ops)][2])
    ELSE LastAutoTableFinalY(SubSeq(ops, 1, Len(ops) - 1))

\* The lines of a text read piece by piece: done are the lines completed so
\* far, line is the one being read.
RECURSIVE SplitLines(_, _, _)
SplitLines(text, done, line) ==
    IF text = <<>> THEN Append(done, line)
    ELSE IF Head(text) = LF
           THEN SplitLines(Tail(text), Append(done, line), <<>>)
           ELSE SplitLines(Tail(text), done, Append(line, Head(text)))

\* doc.text(text, x, y) of a string: jsPDF starts a new line at every line
\* break of the text.  The lines drawn, in order.
DocTextLines(text) == SplitLines(text, <<>>, <<>>)

\* The width a word takes on a line at font size 10, with the space after it.
WordWidth == 10

\* The distance between the baselines of two lines of one doc.text call at
\* font size 10.
LineHeight == 4

\* One paragraph wrapped to maxWidth: the words are put on a line as long as
\* they fit, and a paragraph without words is one empty line.
RECURSIVE WrapWords(_, _)
WrapWords(words, maxWidth) ==
    LET perLine == IF maxWidth \div WordWidth < 1 THEN 1 ELSE maxWidth \div WordWidth
    IN IF Len(words) <= perLine THEN <<words>>
       ELSE <<SubSeq(words, 1, perLine)>>
              \o WrapWords(SubSeq(words, perLine + 1, Len(words)), maxWidth)

RECURSIVE WrapAll(_, _)
WrapAll(paragraphs, maxWidth) ==
    IF paragraphs = <<>> THEN <<>>
    ELSE WrapWords(Head(paragraphs), maxWidth) \o WrapAll(Tail(paragraphs), maxWidth)

\* doc.splitTextToSize(text, maxWidth): the lines of the text, split at its
\* line breaks and wrapped to maxWidth.
SplitTextToSize(text, maxWidth) == WrapAll(DocTextLines(text), maxWidth)

\* The y at which doc.text(lines, x, y) draws each of its lines.
LineYs(lines, y) == [k \in 1..Len(lines) |-> y + (k - 1) * LineHeight]

\* handleDownload$: the three lines of metadata.
DownloadMeta(inv) ==
    << <<"text", <<"Invoice #", inv.id>>, 14, 30>>,
       <<"text", <<"Date: ", inv.createdAt>>, 14, 35>>,
       <<"text", <<"Due Date: ", inv.dueDate>>, 14, 40>> >>

\* handleDownload$: printAddress(label, data, xPos)
PrintAddress(label, data, xPos) ==
    << <<"text", label, xPos, 55>>,
       <<"text", data.name, xPos, 62>>,
       <<"text", data.email, xPos, 67>>,
       <<"text", SplitTextToSize(data.address, 80), xPos, 72>> >>

\* A save under the file name of the invoice number the page started with.
DownloadSave_Mut(inv) == <<"save", <<InitialId, ".pdf">> >>

\* handleDownload$: doc.save(`${invoice.id}.pdf`)
DownloadSave(inv) == <<"save", <<inv.id, ".pdf">> >>

\* A notes section at a fixed place on the page.
DownloadNotes_Mut(notes, lastFinalY) ==
    << <<"text", "Notes:", 14, 150>>, <<"text", notes, 14, 155>> >>

\* handleDownload$: const finalY = lastAutoTable.finalY + 10;
\* doc.text('Notes:', 14, finalY); doc.text(invoice.notes, 14, finalY + 5)
DownloadNotes(notes, lastFinalY) ==
    LET finalY == lastFinalY + 10
    IN << <<"text", "Notes:", 14, finalY>>, <<"text", notes, 14, finalY + 5>> >>

\* The footer handleDownload$ passes to autoTable: subtotal, taxAmount and total
\* are the constants of the render its closure was created in; invoice.taxRate
\* is read from the store.
DownloadFoot(d) == TableFoot(dl[d].captured, invoice.taxRate)

\* What the totals section of the page shows for the present invoice.
ScreenTotals ==
    LET t == PageTotals(invoice)
    IN <<ToFixed2(t.subtotal), ToFixed2(t.taxAmount), ToFixed2(t.total)>>

\* STEP 2 of handleDownload$, with the window as w:
\* if (!win.jspdf || !win.jspdf.autoTable) inject the plugin and await it.
LoadAutoTable(d, r, w) ==
    IF ~w.jspdf \/ ~w.autoTable
      THEN /\ injected' = [injected EXCEPT !.autoTable = @ + 1]
           /\ Goto(d, [r EXCEPT !.pc = "awaitAutoTable"])
      ELSE /\ UNCHANGED injected
           /\ Goto(d, [r EXCEPT !.pc = "create"])

\* A click on Download PDF: handleDownload$ up to its first await.
\* STEP 1: if (!win.jspdf) inject the jsPDF script and await it.
handleDownload(d) ==
    /\ UserEvent
    /\ FreshDownload(d)
    /\ LET r == [dl[d] EXCEPT !.captured = PageTotals(invoice)]
       IN IF ~win.jspdf
            THEN /\ injected' = [injected EXCEPT !.jspdf = @ + 1]
                 /\ Goto(d, [r EXCEPT !.pc = "awaitJsPDF"])
            ELSE LoadAutoTable(d, r, win)
    /\ UNCHANGED <<inputs, invoice, isEditing, now, win, sendVars, logoVars>>

\* script.onload = () => resolve(): the script has run and defined its library
\* (the code takes the plugin to show as win.jspdf.autoTable).
ScriptOnload(d) ==
    /\ Runs(d)
    /\ \/ /\ dl[d].pc = "awaitJsPDF"
          /\ win' = [win EXCEPT !.jspdf = TRUE]
          /\ LoadAutoTable(d, dl[d], win')
       \/ /\ dl[d].pc = "awaitAutoTable"
          /\ win' = [win EXCEPT !.autoTable = win.jspdf]
          /\ UNCHANGED injected
          /\ Goto(d, [dl[d] EXCEPT !.pc = "create"])
    /\ UNCHANGED <<inputs, invoice, isEditing, now, events, sendVars, logoVars>>

\* script.onerror = () => reject(new Error('Failed to load ...'))
ScriptOnerror(d) ==
    /\ Runs(d)
    /\ dl[d].pc \in {"awaitJsPDF", "awaitAutoTable"}
    /\ Goto(d, [dl[d] EXCEPT !.pc = "catch",
                             !.err = IF dl[d].pc = "awaitJsPDF"
                                       THEN "Failed to load jsPDF"
                                       ELSE "Failed to load autoTable"])
    /\ UNCHANGED <<inputs, invoice, isEditing, now, events, win, injected, sendVars, logoVars>>

\* A call on doc succeeds: it is recorded and the handler goes on to next.
Emit(r, op, next) == [r EXCEPT !.ops = Append(@, op), !.pc = next]

\* A layout step throws: control passes to the catch of the outer try, where
\* doc, declared inside the try block, is out of scope.
Throws(r) == [r EXCEPT !.pc = "catch", !.err = "thrown", !.ops = <<>>]

\* Several calls on doc succeed.
EmitAll(r, ops, next) == [r EXCEPT !.ops = @ \o ops, !.pc = next]

\* A layout step of several calls: they all succeed, or one of them throws.
Steps(d, pc, ops, next) ==
    /\ Runs(d)
    /\ dl[d].pc = pc
    /\ \/ Goto(d, EmitAll(dl[d], ops, next))
       \/ Goto(d, Throws(dl[d]))
    /\ UNCHANGED <<inputs, invoice, isEditing, now, events, win, injected, sendVars, logoVars>>

\* One layout step of invocation d: the call succeeds or throws.
Step(d, pc, op, next) ==
    /\ Runs(d)
    /\ dl[d].pc = pc
    /\ \/ Goto(d, Emit(dl[d], op, next))
       \/ Goto(d, Throws(dl[d]))
    /\ UNCHANGED <<inputs, invoice, isEditing, now, events, win, injected, sendVars, logoVars>>

\* const { jsPDF } = win.jspdf; const doc = new jsPDF()
DlCreate(d) == Step(d, "create", <<"jsPDF">>, "title")

\* doc.text('INVOICE', 14, 20)
DlTitle(d) == Step(d, "title", <<"text", "INVOICE", 14, 20>>, "logo")

\* An inner catch that logs the warning and rethrows.
LogoCatch_Mut(r) == [r EXCEPT !.warns = @ + 1, !.pc = "catch", !.err = "thrown", !.ops = <<>>]

\* catch (err) { console.warn('Could not embed logo in PDF:', err) }
LogoCatch(r) == [r EXCEPT !.warns = @ + 1, !.pc = "meta"]

\* if (logoUrl.value) { try { doc.addImage(logoUrl.value, 'PNG', ...) } catch ... }
DlLogo(d) ==
    /\ Runs(d)
    /\ dl[d].pc = "logo"
    /\ IF logoUrl = Null
         THEN Goto(d, [dl[d] EXCEPT !.pc = "meta"])
         ELSE \/ Goto(d, Emit(dl[d], <<"addImage", logoUrl>>, "meta"))
              \/ Goto(d, LogoCatch(dl[d]))
    /\ UNCHANGED <<inputs, invoice, isEditing, now, events, win, injected, sendVars, logoVars>>

\* doc.text(`Invoice #${invoice.id}`, ...), Date, Due Date
DlMeta(d) == Steps(d, "meta", DownloadMeta(invoice), "from")

\* printAddress('FROM:', invoice.from, 14)
DlFrom(d) == Steps(d, "from", PrintAddress("FROM:", invoice.from, 14), "to")

\* printAddress('TO:', invoice.to, 120)
DlTo(d) == Steps(d, "to", PrintAddress("TO:", invoice.to, 120), "table")

\* const tableBody = invoice.items.map(...); doc.autoTable({ body, foot, ... })
DlTable(d) ==
    Step(d, "table",
         <<"autoTable", TableOptions(TableBody(invoice.items), DownloadFoot(d))>>,
         "notes")

\* The notes section: two calls of doc.text, of which either may throw.
DlNotes(d) ==
    /\ Runs(d)
    /\ dl[d].pc = "notes"
    /\ \/ Goto(d, [dl[d] EXCEPT
                     !.ops = @ \o DownloadNotes(invoice.notes, LastAutoTableFinalY(@)),
                     !.pc = "save"])
       \/ Goto(d, Throws(dl[d]))
    /\ UNCHANGED <<inputs, invoice, isEditing, now, events, win, injected, sendVars, logoVars>>

\* doc.save(`${invoice.id}.pdf`), the last statement of the try block
DlSave(d) ==
    /\ Runs(d)
    /\ dl[d].pc = "save"
    /\ Goto(d, [Emit(dl[d], DownloadSave(invoice), "return") EXCEPT !.saved = @ + 1])
    /\ UNCHANGED <<inputs, invoice, isEditing, now, events, win, injected, sendVars, logoVars>>

\* A top-level catch that logs the error and shows no alert.
CatchTopLevel_Mut(r) == [r EXCEPT !.errors = @ + 1, !.pc = "return"]

\* catch (error) { console.error('PDF generation failed:', error); alert(...) }
CatchTopLevel(r) == [r EXCEPT !.errors = @ + 1, !.alerts = @ + 1, !.pc = "return"]

DlCatch(d) ==
    /\ Runs(d)
    /\ dl[d].pc = "catch"
    /\ Goto(d, CatchTopLevel(dl[d]))
    /\ UNCHANGED <<inputs, invoice, isEditing, now, events, win, injected, sendVars, logoVars>>

\* The handler returns, after doc.save or after the catch block: the
\* invocation, its doc and its closure are gone.
DlReturn(d) ==
    /\ Runs(d)
    /\ dl[d].pc = "return"
    /\ Goto(d, IdleDownload)
    /\ UNCHANGED <<inputs, invoice, isEditing, now, events, win, injected, sendVars, logoVars>>

\* The synchronous part of handleDownload$ after its awaits.
Layout(d) ==
    \/ DlCreate(d) \/ DlTitle(d) \/ DlLogo(d) \/ DlMeta(d) \/ DlFrom(d)
    \/ DlTo(d) \/ DlTable(d) \/ DlNotes(d) \/ DlSave(d) \/ DlCatch(d)
    \/ DlReturn(d)

\* ------------------------------------------------------ generateInvoicePDF
\* A table body whose Total column repeats the price.
PdfTableBody_Mut(items) ==
    [i \in 1..Len(items) |->
        <<items[i].description,
          NumToString(items[i].quantity),
          <<"$", ToFixed2(Amount(items[i].price))>>,
          <<"$", ToFixed2(Amount(items[i].price))>> >>]

\* generateInvoicePDF: const tableBody = invoice.items.map((item) => [...])
PdfTableBody(items) ==
    [i \in 1..Len(items) |->
        <<items[i].description,
          NumToString(items[i].quantity),
          <<"$", ToFixed2(Amount(items[i].price))>>,
          <<"$", ToFixed2(Amount(JsMul(items[i].quantity, items[i].price)))>> >>]

\* generateInvoicePDF: foot, from the totals it has just computed.
PdfFoot(inv) ==
    LET t == PdfTotals(inv)
    IN << <<"", "", "Subtotal", <<"$", ToFixed2(t.subtotal)>> >>,
          <<"", "", <<"Tax (", NumToString(inv.taxRate), "%)">>,
            <<"$", ToFixed2(t.taxAmount)>> >>,
          <<"", "", "Total", <<"$", ToFixed2(t.total)>> >> >>

\* A notes section that prints the notes on one line.
RECURSIVE PdfNotes_Flat(_)
PdfNotes_Flat(notes) ==
    IF notes = <<>> THEN <<>>
    ELSE (IF Head(notes) = LF THEN <<" ">> ELSE <<Head(notes)>>)
           \o PdfNotes_Flat(Tail(notes))

PdfNotes_Mut(notes, lastFinalY) ==
    LET finalY == lastFinalY + 10
    IN << <<"text", "Notes:", 14, finalY>>,
          <<"text", PdfNotes_Flat(notes), 14, finalY + 5>> >>

\* generateInvoicePDF: const finalY = lastAutoTable.finalY + 10;
\* doc.text('Notes:', 14, finalY); doc.text(invoice.notes, 14, finalY + 5)
PdfNotes(notes, lastFinalY) ==
    LET finalY == lastFinalY + 10
    IN << <<"text", "Notes:", 14, finalY>>, <<"text", notes, 14, finalY + 5>> >>

\* generateInvoicePDF: the three lines of metadata.
PdfMeta(inv) ==
    << <<"text", <<"Invoice #", inv.id>>, 14, 30>>,
       <<"text", <<"Date: ", inv.createdAt>>, 14, 35>>,
       <<"text", <<"Due Date: ", inv.dueDate>>, 14, 40>> >>

\* A printAddress that draws the email above the name.
PdfPrintAddress_Mut(label, data, xPos) ==
    << <<"text", label, xPos, 55>>,
       <<"text", data.email, xPos, 62>>,
       <<"text", data.name, xPos, 67>>,
       <<"text", SplitTextToSize(data.address, 80), xPos, 72>> >>

\* generateInvoicePDF: printAddress(label, data, xPos)
PdfPrintAddress(label, data, xPos) ==
    << <<"text", label, xPos, 55>>,
       <<"text", data.name, xPos, 62>>,
       <<"text", data.email, xPos, 67>>,
       <<"text", SplitTextToSize(data.address, 80), xPos, 72>> >>

\* generateInvoicePDF: doc.save(`${invoice.id}.pdf`)
PdfSave(inv) == <<"save", <<inv.id, ".pdf">> >>

\* generateInvoicePDF: autoTable(doc, { startY, head, body: tableBody, foot })
PdfAutoTable(inv) ==
    <<"autoTable", TableOptions(PdfTableBody(inv.items), PdfFoot(inv))>>

\* generateInvoicePDF: the table and the notes section below it.
PdfTableAndNotes(inv) ==
    <<PdfAutoTable(inv)>>
      \o PdfNotes(inv.notes, LastAutoTableFinalY(<<PdfAutoTable(inv)>>))

\* generateInvoicePDF(invoice): the calls it makes on its doc when the imports
\* resolve and no call throws.
generateInvoicePDF(inv) ==
    << <<"jsPDF">>, <<"text", "INVOICE", 14, 20>> >>
      \o PdfMeta(inv)
      \o PdfPrintAddress("FROM:", inv.from, 14)
      \o PdfPrintAddress("TO:", inv.to, 120)
      \o PdfTableAndNotes(inv)
      \o <<PdfSave(inv)>>

\* ------------------------------------------------------- the specification
Init ==
    /\ invoice = InitialInvoice
    /\ isEditing = TRUE
    /\ isSending = FALSE
    /\ logoUrl = Null
    /\ now = T0
    /\ events = 0
    /\ inputs = 0
    /\ readers = <<>>
    /\ lastFile = NoFile
    /\ deleted = FALSE
    /\ send = [s \in SendIds |-> IdleSend]
    /\ win = [jspdf |-> FALSE, autoTable |-> FALSE]
    /\ injected = [jspdf |-> 0, autoTable |-> 0]
    /\ dl = [d \in DownloadIds |-> IdleDownload]
    /\ cur = 0

Next ==
    \/ ToggleEditing
    \/ addItem
    \/ \E index \in 1..MaxItems : removeItem(index)
    \/ \E index \in 1..MaxItems, typed \in TypedTexts : InputQuantity(index, typed)
    \/ \E index \in 1..MaxItems, typed \in TypedTexts : InputPrice(index, typed)
    \/ \E typed \in TypedTexts : InputTaxRate(typed)
    \/ \E index \in 1..MaxItems, typed \in DescriptionTexts : InputDescription(index, typed)
    \/ \E typed \in NotesTexts : InputNotes(typed)
    \/ \E s \in SendIds : handleSend(s)
    \/ \E s \in SendIds : SendTimer(s)
    \/ \E file \in Files \cup {NoFile} : handleLogoUpload(file)
    \/ \E k \in 1..MaxEvents : ReaderOnload(k)
    \/ handleLogoDelete
    \/ \E d \in DownloadIds : handleDownload(d)
    \/ \E d \in DownloadIds : ScriptOnload(d)
    \/ \E d \in DownloadIds : ScriptOnerror(d)
    \/ \E d \in DownloadIds : Layout(d)

Spec == Init /\ [][Next]_vars

\* The handlers that can stand between a send and its completion: the sends
\* themselves and the downloads, which hold the thread during their layout.
\* (Every other handler returns at once and leaves the sends alone.)
SendNext ==
    \/ \E s \in SendIds : handleSend(s)
    \/ \E s \in SendIds : SendTimer(s)
    \/ \E d \in DownloadIds : handleDownload(d)
    \/ \E d \in DownloadIds : ScriptOnload(d)
    \/ \E d \in DownloadIds : ScriptOnerror(d)
    \/ \E d \in DownloadIds : Layout(d)

\* A task that holds the thread runs on, and a timer that is due fires.
SendSpec ==
    /\ Init
    /\ [][SendNext]_vars
    /\ \A s \in SendIds : WF_vars(SendTimer(s))
    /\ \A d \in DownloadIds : WF_vars(Layout(d))

\* The handlers that decide what a PDF shows: those of the edit form and the
\* downloads.  (The sends and the logo leave the invoice, the table and the
\* notes alone.)
PdfNext ==
    \/ ToggleEditing
    \/ addItem
    \/ \E index \in 1..MaxItems : removeItem(index)
    \/ \E index \in 1..MaxItems, typed \in TypedTexts : InputQuantity(index, typed)
    \/ \E index \in 1..MaxItems, typed \in TypedTexts : InputPrice(index, typed)
    \/ \E typed \in TypedTexts : InputTaxRate(typed)
    \/ \E index \in 1..MaxItems, typed \in DescriptionTexts : InputDescription(index, typed)
    \/ \E typed \in NotesTexts : InputNotes(typed)
    \/ \E d \in DownloadIds : handleDownload(d)
    \/ \E d \in DownloadIds : ScriptOnload(d)
    \/ \E d \in DownloadIds : ScriptOnerror(d)
    \/ \E d \in DownloadIds : Layout(d)

PdfSpec == Init /\ [][PdfNext]_vars

\* The most items added to the two of the start, for the long item lists.
MaxAdded == 18

\* The items after n clicks on Add Item, a millisecond apart.
AddedItems(n) == InitialItems \o [i \in 1..n |-> NewItem(T0 + i)]

\* The page with a long item list: the user has added up to MaxAdded items.
LongInit ==
    /\ \E n \in 0..MaxAdded :
          /\ invoice = [InitialInvoice EXCEPT !.items = AddedItems(n)]
          /\ now = T0 + n
    /\ isEditing = TRUE
    /\ isSending = FALSE
    /\ logoUrl = Null
    /\ events = 0
    /\ inputs = 0
    /\ readers = <<>>
    /\ lastFile = NoFile
    /\ deleted = FALSE
    /\ send = [s \in SendIds |-> IdleSend]
    /\ win = [jspdf |-> FALSE, autoTable |-> FALSE]
    /\ injected = [jspdf |-> 0, autoTable |-> 0]
    /\ dl = [d \in DownloadIds |-> IdleDownload]
    /\ cur = 0

\* The downloads of a page with a long item list, and the edits of its notes.
LongNext ==
    \/ \E typed \in NotesTexts : InputNotes(typed)
    \/ \E d \in DownloadIds : handleDownload(d)
    \/ \E d \in DownloadIds : ScriptOnload(d)
    \/ \E d \in DownloadIds : ScriptOnerror(d)
    \/ \E d \in DownloadIds : Layout(d)

LongSpec == LongInit /\ [][LongNext]_vars

\* The handlers of the header and of the two address sections, with those that
\* read what they write: the downloads (the metadata, the addresses and the
\* file name of a PDF) and the sends (the email of the alert).  No other
\* handler reads or writes the id, the dates, the names, the addresses or the
\* emails.
HeaderNext ==
    \/ ToggleEditing
    \/ \E typed \in IdTexts : InputId(typed)
    \/ \E typed \in DateTexts : InputCreatedAt(typed)
    \/ \E typed \in DateTexts : InputDueDate(typed)
    \/ \E party \in Parties, typed \in NameTexts : InputName(party, typed)
    \/ \E party \in Parties, typed \in AddressTexts : InputAddress(party, typed)
    \/ \E party \in Parties, typed \in EmailTexts : InputEmail(party, typed)
    \/ \E s \in SendIds : handleSend(s)
    \/ \E s \in SendIds : SendTimer(s)
    \/ \E d \in DownloadIds : handleDownload(d)
    \/ \E d \in DownloadIds : ScriptOnload(d)
    \/ \E d \in DownloadIds : ScriptOnerror(d)
    \/ \E d \in DownloadIds : Layout(d)

HeaderSpec ==
    /\ Init
    /\ [][HeaderNext]_vars
    /\ \A s \in SendIds : WF_vars(SendTimer(s))
    /\ \A d \in DownloadIds : WF_vars(Layout(d))

\* ------------------------------------------------------------------ claims
\* The sum over the items of quantity * price, from the last item down.
RECURSIVE SumLineTotals(_, _)
SumLineTotals(items, n) ==
    IF n = 0 THEN 0
    ELSE items[n].quantity * items[n].price + SumLineTotals(items, n - 1)

\* C1: for every invoice the page's totals and those of generateInvoicePDF are
\* the same three values, with subtotal = sum of quantity * price,
\* taxAmount = subtotal * taxRate / 100 and total = subtotal + taxAmount
\* (amounts in hundredths).
C1_TotalsAgree ==
    LET p == PageTotals(invoice)
        g == PdfTotals(invoice)
    IN /\ p = g
       /\ g.subtotal = 100 * SumLineTotals(invoice.items, Len(invoice.items))
       /\ 100 * g.taxAmount = g.subtotal * invoice.taxRate
       /\ g.total = g.subtotal + g.taxAmount

C1_Witness ==
    /\ Len(invoice.items) = 3
    /\ invoice.taxRate = 2
    /\ PdfTotals(invoice).taxAmount > 0

\* The autoTable calls among the calls made on the doc of invocation d.
TableOps(d) == {i \in 1..Len(dl[d].ops) : dl[d].ops[i][1] = "autoTable"}

\* The three amounts of a table footer, as printed.
FootAmounts(foot) == <<foot[1][4][2], foot[2][4][2], foot[3][4][2]>>

\* C2: the Subtotal, Tax and Total in the footer of a PDF of handleDownload$
\* are the totals the page shows for the invoice as it is when the table is
\* built (the layout leaves the invoice as it is until the handler returns).
C2_FooterMatchesScreen ==
    \A d \in DownloadIds : \A i \in TableOps(d) :
        FootAmounts(dl[d].ops[i][2].foot) = ScreenTotals

\* C3: an invocation of handleDownload$ that failed (a script did not load, a
\* layout step threw) reached the top-level catch, showed exactly one alert,
\* logged exactly one console error and never called doc.save; one that did
\* not fail showed and logged none.
C3_FailureIsCaught ==
    \A d \in DownloadIds :
        /\ dl[d].pc = "catch" => dl[d].err # "none" /\ dl[d].alerts = 0
        /\ dl[d].err # "none" =>
              /\ dl[d].pc \in {"catch", "return"}
              /\ dl[d].saved = 0
              /\ \A i \in 1..Len(dl[d].ops) : dl[d].ops[i][1] # "save"
        /\ (dl[d].pc = "return" /\ dl[d].err # "none") =>
              dl[d].alerts = 1 /\ dl[d].errors = 1
        /\ dl[d].err = "none" => dl[d].alerts = 0 /\ dl[d].errors = 0

C3_Witness ==
    \E d, e \in DownloadIds :
        /\ dl[d].pc = "return" /\ dl[d].err = "thrown" /\ dl[d].alerts = 1
        /\ dl[e].pc = "awaitAutoTable"

\* The names of the calls made on a doc.
OpNames(ops) == [i \in 1..Len(ops) |-> ops[i][1]]

\* C4: when doc.addImage throws, handleDownload$ logs one warning, shows no
\* alert and goes on with the metadata; if no later step throws it makes every
\* remaining call (metadata, FROM, TO, table, notes) and ends with doc.save.
C4_LogoFailureIsNotFatal ==
    /\ [][\A d \in DownloadIds :
            (dl[d].pc = "logo" /\ dl'[d].warns # dl[d].warns) =>
                /\ dl'[d].warns = 1
                /\ dl'[d].pc = "meta"
                /\ dl'[d].err = "none"
                /\ dl'[d].alerts = 0
                /\ dl'[d].ops = dl[d].ops]_vars
    /\ [](\A d \in DownloadIds :
            (dl[d].warns > 0 /\ dl[d].pc = "return" /\ dl[d].err = "none") =>
                /\ dl[d].alerts = 0
                /\ dl[d].saved = 1
                /\ OpNames(dl[d].ops) =
                      <<"jsPDF", "text", "text", "text", "text",
                        "text", "text", "text", "text",
                        "text", "text", "text", "text",
                        "autoTable", "text", "text", "save">>)

C4_Witness ==
    \E d \in DownloadIds :
        /\ dl[d].warns = 1 /\ dl[d].pc = "return" /\ dl[d].saved = 1
        /\ logoUrl # Null

\* C5: each of the two library scripts is injected at most once in a session.
C5_ScriptsInjectedOnce == injected.jspdf <= 1 /\ injected.autoTable <= 1

\* C6: while an invocation of handleDownload$ is in its layout, every step is a
\* step of that invocation: no other handler touches the invoice, the logo, the
\* mode, the sends, the pending reads or another download.
C6_LayoutIsAtomic ==
    [][\A d \in DownloadIds :
          (dl[d].pc \in LayoutPcs) =>
              /\ UNCHANGED <<invoice, isEditing, now, events, inputs, sendVars,
                             logoVars, win, injected>>
              /\ \A e \in DownloadIds \ {d} : dl'[e] = dl[e]]_vars

C6_Witness ==
    \E d \in DownloadIds :
        /\ dl[d].pc = "table"
        /\ \E s \in SendIds : send[s].pc = "delay"
        /\ readers # <<>>

\* C7: when the last pending read completes, logoUrl holds the payload of the
\* file selected last.
C7_LatestUploadWins ==
    [][(readers # <<>> /\ readers' = <<>>) => logoUrl' = DataURL(lastFile)]_vars

\* The sends that are in their delay.
PendingSends == {s \in SendIds : send[s].pc = "delay"}

\* C8, as claimed: while a send is in its delay, handleSend$ can be invoked
\* again.
C8_DoubleSubmitPossible ==
    (Idle /\ events < MaxEvents /\ PendingSends # {}) =>
        ENABLED (\E s \in SendIds : handleSend(s))

\* C8, amended: the Send button is disabled while isSending is true, so at most
\* one send is in its delay at any time.
C8_AtMostOneSendPending == Cardinality(PendingSends) <= 1

C8_Witness ==
    /\ Cardinality(PendingSends) = 1
    /\ \E s \in SendIds : send[s].pc = "done"
    /\ Idle /\ events < MaxEvents

\* C9: every invocation of handleSend$ completes: it shows exactly one success
\* alert and then sets isSending to false; it has no other outcome.
C9_SendCompletes ==
    /\ [](\A s \in SendIds :
            /\ send[s].pc \in {"idle", "delay", "done"}
            /\ send[s].alerts = IF send[s].pc = "done" THEN 1 ELSE 0)
    /\ [][\A s \in SendIds :
            (send[s].pc = "delay" /\ send'[s].pc # "delay") =>
                send'[s].pc = "done" /\ send'[s].alerts = 1 /\ ~isSending']_vars
    /\ \A s \in SendIds : (send[s].pc = "delay") ~> (send[s].pc = "done")

C9_Witness ==
    \E s \in SendIds : send[s].pc = "done" /\ send[s].alerts = 1 /\ ~isSending

\* C10: the line items have pairwise distinct ids.
C10_ItemIdsDistinct ==
    \A i, j \in 1..Len(invoice.items) :
        i # j => invoice.items[i].id # invoice.items[j].id

\* C11: a step that makes the item sequence longer (addItem$) appends exactly
\* one item, with quantity 1, price 0 and an empty description, and leaves the
\* items that were there as they were, each in its place.
C11_AddItemAppendsOne ==
    [][Len(invoice'.items) > Len(invoice.items) =>
          LET n == Len(invoice.items)
              new == invoice'.items[n + 1]
          IN /\ Len(invoice'.items) = n + 1
             /\ \A k \in 1..n : invoice'.items[k] = invoice.items[k]
             /\ new.quantity = 1 /\ new.price = 0 /\ new.description = ""]_vars

C11_Witness ==
    /\ Len(invoice.items) = 3
    /\ SubSeq(invoice.items, 1, 2) = InitialItems
    /\ invoice.items[3].quantity = 1 /\ invoice.items[3].price = 0

\* C12: after addItem$, removing the item at the position the new item got
\* (the last one) gives the item sequence of before: same items, same order.
C12_AddThenRemoveRestores ==
    [][Len(invoice'.items) = Len(invoice.items) + 1 =>
          Splice(invoice'.items, Len(invoice'.items)) = invoice.items]_vars

C12_Witness ==
    /\ Len(invoice.items) = 3
    /\ invoice.items[3].description = ""
    /\ events = 1
    /\ isEditing /\ Idle

\* The sequence items without its element at position index, element by
\* element.
Without(items, index) ==
    [k \in 1..(Len(items) - 1) |-> IF k < index THEN items[k] ELSE items[k + 1]]

\* C13: removing the item at a position of the list removes exactly that item:
\* the list is one shorter, the items before keep their places and the items
\* after move down by one; every step that shortens the list is such a
\* removal, and removing the first of the two initial items leaves the second.
C13_RemoveItemAtIndex ==
    /\ [](\A index \in 1..Len(invoice.items) :
            Splice(invoice.items, index) = Without(invoice.items, index))
    /\ [](Splice(InitialItems, 1) = <<InitialItems[2]>>)
    /\ [][Len(invoice'.items) < Len(invoice.items) =>
            \E index \in 1..Len(invoice.items) :
                invoice'.items = Without(invoice.items, index)]_vars

C13_Witness == invoice.items = <<InitialItems[2]>>

\* C14: no step changes both the tax rate and the item sequence: a change of
\* taxRate leaves the items alone, and a change of the items (an item added,
\* removed or edited) leaves taxRate alone.
C14_TaxRateAndItemsApart ==
    [][/\ invoice'.taxRate # invoice.taxRate => invoice'.items = invoice.items
       /\ invoice'.items # invoice.items => invoice'.taxRate = invoice.taxRate]_vars

C14_Witness ==
    /\ invoice.taxRate = 0 - 1
    /\ Len(invoice.items) = 1
    /\ invoice.items[1] = InitialItems[1]

\* C15: the quantity, the price and the tax rate of the invoice are never NaN,
\* and a text that is not a number is stored as 0 by each of the three fields.
C15_InputsCoercedToNumbers ==
    /\ \A i \in 1..Len(invoice.items) :
          ~IsNaN(invoice.items[i].quantity) /\ ~IsNaN(invoice.items[i].price)
    /\ ~IsNaN(invoice.taxRate)
    /\ \A t \in TypedTexts :
          IsNaN(JsNumber(t)) =>
              /\ OrZero(ParseFloat(NumberInputValue(t))) = 0
              /\ NumberInputValue(t) = <<>>

C15_Witness ==
    /\ inputs = 1
    /\ \E i \in 1..Len(invoice.items) : invoice.items[i].price = 0
    /\ \A i \in 1..Len(invoice.items) : invoice.items[i].description # ""

\* What a call on the doc draws: the title, a block of text, the logo, the
\* table, the notes (label and text), or the save.
OpKind(op) ==
    IF op[1] # "text" THEN op[1]
    ELSE IF op[4] = 20 THEN "INVOICE"
    ELSE IF op[4] \in {30, 35, 40} THEN "meta"
    ELSE IF op[4] \in {55, 62, 67, 72} THEN (IF op[3] = 14 THEN "FROM:" ELSE "TO:")
    ELSE "notes"

OpKinds(ops) == [i \in 1..Len(ops) |-> OpKind(ops[i])]

\* The order of the layout: title, metadata, logo when there is one, FROM,
\* TO, table, notes, save.
LayoutOrder(logo) ==
    <<"jsPDF", "INVOICE", "meta", "meta", "meta">>
      \o (IF logo THEN <<"addImage">> ELSE <<>>)
      \o <<"FROM:", "FROM:", "FROM:", "FROM:", "TO:", "TO:", "TO:", "TO:",
           "autoTable", "notes", "notes", "save">>

\* C16: a generation that succeeded, by handleDownload$ or by
\* generateInvoicePDF, made its calls in the order title, metadata, logo (when
\* a logo is present), FROM, TO, table, notes, save, with save last and once
\* (generateInvoicePDF is given the invoice only, never a logo).
C16_OutputOrder ==
    /\ \A d \in DownloadIds :
          (dl[d].pc = "return" /\ dl[d].saved = 1 /\ dl[d].warns = 0) =>
              OpKinds(dl[d].ops) = LayoutOrder(logoUrl # Null)
    /\ OpKinds(generateInvoicePDF(invoice)) = LayoutOrder(FALSE)

\* The options describe the table of the items: the header row, one body row
\* per item in order (description, quantity, price, quantity * price) and the
\* footer rows Subtotal, Tax (rate%), Total.
IsItemsTable(options, items, taxRate) ==
    /\ options.head = << <<"Description", "Qty", "Price", "Total">> >>
    /\ Len(options.body) = Len(items)
    /\ \A i \in 1..Len(items) :
          LET row == options.body[i]
              lineTotal == 100 * items[i].quantity * items[i].price
          IN /\ Len(row) = 4
             /\ row[1] = items[i].description
             /\ row[2] = NumToString(items[i].quantity)
             /\ row[3] = <<"$", ToFixed2(100 * items[i].price)>>
             /\ row[4] = <<"$", ToFixed2(lineTotal)>>
    /\ Len(options.foot) = 3
    /\ options.foot[1][3] = "Subtotal"
    /\ options.foot[2][3] = <<"Tax (", NumToString(taxRate), "%)">>
    /\ options.foot[3][3] = "Total"

\* The options of the table generateInvoicePDF draws for the present invoice.
PdfTable == PdfAutoTable(invoice)[2]

\* C17: the table of a PDF, in handleDownload$ and in generateInvoicePDF, has
\* the header row Description, Qty, Price, Total, one body row per line item in
\* the order of invoice.items with the item's description, quantity, price and
\* quantity * price, and the three footer rows Subtotal, Tax (rate%), Total.
C17_TableRows ==
    /\ \A d \in DownloadIds : \A i \in TableOps(d) :
          IsItemsTable(dl[d].ops[i][2], invoice.items, invoice.taxRate)
    /\ \A table \in {PdfTable} : IsItemsTable(table, invoice.items, invoice.taxRate)

C17_Witness ==
    \E d \in DownloadIds :
        /\ TableOps(d) # {}
        /\ Len(invoice.items) = 3
        /\ invoice.items[3].description = ""

\* Three footer amounts of 0.00.
ZeroAmounts == <<ToFixed2(0), ToFixed2(0), ToFixed2(0)>>

\* C18: with an empty item list the table of a PDF has no body row and its
\* footer shows 0.00 for subtotal, tax and total, whatever the tax rate, and
\* the generation ends with save.
C18_EmptyInvoiceTable ==
    /\ \A d \in DownloadIds : \A i \in TableOps(d) :
          invoice.items = <<>> =>
              /\ dl[d].ops[i][2].body = <<>>
              /\ dl[d].ops[i][2].head = TableHead
              /\ FootAmounts(dl[d].ops[i][2].foot) = ZeroAmounts
    /\ invoice.items = <<>> =>
          /\ PdfTable.body = <<>>
          /\ FootAmounts(PdfTable.foot) = ZeroAmounts
          /\ generateInvoicePDF(invoice)[Len(generateInvoicePDF(invoice))][1] = "save"

\* The notes section in the calls ops is placed from the end of the table: the
\* label 10 below the final y of the table drawn just before it, the text 5
\* below the label.
NotesFollowTable(ops) ==
    \A i \in 1..Len(ops) :
        (ops[i][1] = "autoTable" /\ i + 2 <= Len(ops)) =>
            /\ ops[i + 1][2] = "Notes:"
            /\ ops[i + 1][4] = FinalY(ops[i][2]) + 10
            /\ ops[i + 2][4] = ops[i + 1][4] + 5

\* C19: in both routes the 'Notes:' label is drawn at the final y the table
\* engine reports for the table just drawn plus 10, and the notes 5 below it,
\* whatever the extent of the table.
C19_NotesBelowTable ==
    /\ \A d \in DownloadIds : NotesFollowTable(dl[d].ops)
    /\ \A pdf \in {PdfTableAndNotes(invoice)} : NotesFollowTable(pdf)

C19_Witness ==
    \E d \in DownloadIds :
        /\ dl[d].pc = "save"
        /\ Len(invoice.items) = 1
        /\ LastAutoTableFinalY(dl[d].ops) = StartY + 5 * RowHeight

\* The number of line breaks of a text.
LineBreaks(text) == Cardinality({k \in 1..Len(text) : text[k] = LF})

\* The lines put together again, a line break between two of them.
RECURSIVE JoinLines(_)
JoinLines(lines) ==
    IF Len(lines) = 1 THEN lines[1]
    ELSE lines[1] \o <<LF>> \o JoinLines(Tail(lines))

\* The notes drawn by the calls ops are those of the invoice, line by line.
NotesLinesKept(ops) ==
    \A i \in 1..Len(ops) :
        (ops[i][1] = "autoTable" /\ i + 2 <= Len(ops)) =>
            LET lines == DocTextLines(ops[i + 2][2])
            IN /\ Len(lines) = LineBreaks(invoice.notes) + 1
               /\ JoinLines(lines) = invoice.notes

\* C20: the notes block of a PDF has a line for every line of invoice.notes, in
\* the same order: every line break of the notes is a line break of the block.
C20_NotesLineBreaksKept ==
    /\ \A d \in DownloadIds : NotesLinesKept(dl[d].ops)
    /\ \A pdf \in {PdfTableAndNotes(invoice)} : NotesLinesKept(pdf)

C20_Witness ==
    \E d \in DownloadIds :
        /\ dl[d].pc = "save"
        /\ LineBreaks(invoice.notes) = 3
        /\ Len(DocTextLines(dl[d].ops[Len(dl[d].ops)][2])) = 4

\* The last call of a sequence of calls.
LastOp(ops) == ops[Len(ops)]

\* C21: a PDF generation that succeeds ends with a download whose file name is
\* the invoice number at the time of the generation followed by ".pdf", in
\* handleDownload$ (the step that saves names the id the store holds at that
\* step, whatever was typed into the id field before, also while the download
\* waited for its scripts) and in generateInvoicePDF.
C21_FileNameIsInvoiceId ==
    /\ [][\A d \in DownloadIds :
            dl'[d].saved = dl[d].saved + 1 =>
                /\ LastOp(dl'[d].ops) = <<"save", <<invoice.id, ".pdf">> >>
                /\ invoice' = invoice]_vars
    /\ [](LastOp(generateInvoicePDF(invoice)) = <<"save", <<invoice.id, ".pdf">> >>)

C21_Witness ==
    \E d \in DownloadIds :
        /\ dl[d].pc = "return" /\ dl[d].saved = 1
        /\ invoice.id = "INV-7"
        /\ LastOp(dl[d].ops) = <<"save", <<"INV-7", ".pdf">> >>

\* The amount a printed x.toFixed(2) stands for, in hundredths.
PrintedAmount(t) ==
    IF Len(t) = 1 THEN NaN
    ELSE (IF t[1] = "-" THEN 0 - 1 ELSE 1) * (100 * t[2] + 10 * t[4] + t[5])

\* The number a printed n.toString() stands for.
PrintedNumber(t) ==
    IF Len(t) = 1 THEN NaN ELSE (IF t[1] = "-" THEN 0 - 1 ELSE 1) * t[2]

\* The sum of the Total column of the first n body rows, in hundredths.
RECURSIVE SumPrintedTotals(_, _)
SumPrintedTotals(body, n) ==
    IF n = 0 THEN 0
    ELSE JsAdd(SumPrintedTotals(body, n - 1), PrintedAmount(body[n][4][2]))

\* The table is consistent in itself: its Subtotal is the sum of the line
\* totals of its body rows, and its Tax amount is that Subtotal at the rate
\* its Tax label names.
TableConsistent(options) ==
    LET subtotal == PrintedAmount(options.foot[1][4][2])
        rate == PrintedNumber(options.foot[2][3][2])
        tax == PrintedAmount(options.foot[2][4][2])
    IN /\ subtotal = SumPrintedTotals(options.body, Len(options.body))
       /\ JsMul(tax, 100) = JsMul(subtotal, rate)

\* C22: every PDF of handleDownload$ is consistent in itself, whatever edits
\* happen between the click and the layout: the Subtotal of its footer is the
\* sum of the line totals of its own body rows, and its Tax row is computed
\* at the rate its Tax label shows.
C22_PdfInternallyConsistent ==
    \A d \in DownloadIds : \A i \in TableOps(d) :
        TableConsistent(dl[d].ops[i][2])

\* C23: in preview mode (isEditing false) no input that changes the invoice is
\* offered: a step taken in preview mode leaves the id, the dates, the
\* addresses, the items, the notes and the tax rate as they are.
C23_PreviewKeepsInvoice ==
    [][~isEditing => invoice' = invoice]_vars

\* C24: after handleLogoDelete$ has set the logo to null, logoUrl stays null
\* until the user selects a new file: a read that was started before the
\* delete does not bring a logo back.
C24_DeletedLogoStaysDeleted ==
    deleted => logoUrl = Null

\* C25: isSending is true exactly when a send is pending (invoked and not yet
\* finished), and it does not become false while a send is in its delay.
C25_SendingIffPending ==
    /\ [](isSending <=> PendingSends # {})
    /\ [][(isSending /\ ~isSending') => PendingSends' = {}]_vars

C25_Witness ==
    /\ isSending
    /\ \E s, t \in SendIds : send[s].pc = "done" /\ send[t].pc = "delay"

\* C26: the quantity field prevents negative quantities: whatever is typed
\* into it, every line item's quantity is 0 or more.
C26_QuantityNotNegative ==
    \A i \in 1..Len(invoice.items) : invoice.items[i].quantity >= 0

\* C27: for the same invoice and without a logo, a handleDownload$ whose
\* closure holds the totals of that invoice (the library is loaded and no edit
\* happens during the call) makes the calls generateInvoicePDF makes: the same
\* texts at the same coordinates, the same table head, body and foot, and the
\* same file name, in the same order.
C27_RoutesAgree ==
    [][\A d \in DownloadIds :
          (/\ dl'[d].saved = dl[d].saved + 1
           /\ logoUrl = Null
           /\ dl[d].captured = PageTotals(invoice)) =>
              dl'[d].ops = generateInvoicePDF(invoice)]_vars

\* A download of an invoice that was edited before the click: its closure
\* holds the totals of the edited invoice.
C27_Witness ==
    \E d \in DownloadIds :
        /\ dl[d].pc = "return" /\ dl[d].saved = 1
        /\ logoUrl = Null
        /\ invoice.items[1].quantity = 2
        /\ dl[d].captured = PageTotals(invoice)
        /\ dl[d].ops = generateInvoicePDF(invoice)

\* Every line of the address blocks among the calls ops (the doc.text calls at
\* y = 72) is drawn above the start of the table.
AddressesAboveTable(ops) ==
    \A i \in 1..Len(ops) :
        (ops[i][1] = "text" /\ ops[i][4] = 72) =>
            \A k \in 1..Len(ops[i][2]) : LineYs(ops[i][2], 72)[k] < StartY

\* C28: in both routes every line of the wrapped FROM and TO address (the
\* first at y = 72, the others below it) is drawn above the table, which
\* starts at y = 95, however long the address is and however many line breaks
\* it has.
C28_AddressAboveTable ==
    /\ \A d \in DownloadIds : AddressesAboveTable(dl[d].ops)
    /\ AddressesAboveTable(generateInvoicePDF(invoice))

\* The notes section among the calls ops (the two doc.text calls after the
\* table) is inside the page: the label and every line of the notes text are
\* drawn at a y of at most the height of the page.
NotesInsidePage(ops) ==
    \A i \in 1..Len(ops) :
        (ops[i][1] = "autoTable" /\ i + 2 <= Len(ops)) =>
            /\ ops[i + 1][4] <= PageHeight
            /\ LET lines == DocTextLines(ops[i + 2][2])
               IN \A k \in 1..Len(lines) :
                      LineYs(lines, ops[i + 2][4])[k] <= PageHeight

\* C29: in both routes the notes label and the notes text, placed 10 and 15
\* below the final y of the table, are drawn inside the A4 page (y at most
\* 297), whatever the extent of the table: also when the table ends near the
\* bottom of the page or continues on a further page.
C29_NotesInsidePage ==
    /\ \A d \in DownloadIds : NotesInsidePage(dl[d].ops)
    /\ NotesInsidePage(generateInvoicePDF(invoice))

\* C30: the success alert of handleSend$ names the recipient email the store
\* holds when the delay ends, not the one of the click: an edit of
\* invoice.to.email made during the delay shows in the message.
C30_AlertNamesCurrentEmail ==
    [][\A s \in SendIds :
          (send[s].pc = "delay" /\ send'[s].pc = "done") =>
              /\ send'[s].message =
                    <<"Invoice sent successfully to ", invoice.to.email, "!">>
              /\ invoice'.to.email = invoice.to.email]_vars

\* A send whose recipient was edited during its delay.
C30_Witness ==
    \E s \in SendIds :
        /\ send[s].pc = "done"
        /\ send[s].clicked = "client@business.com"
        /\ send[s].message = <<"Invoice sent successfully to ", "new@client.com", "!">>

====
